---- MODULE Spec2Model ----
(***************************************************************************)
(* Model of escrape.py: scrape_google_maps (validation, sessions, listing  *)
(* loop, teardown), scroll_to_load_more and the email discovery engine     *)
(* search_email_on_website; and of the batch loop of main_uat1.py.         *)
(*                                                                         *)
(* Strings are finite sequences of tokens.  An optional (None-able) field  *)
(* is a sequence of length <= 1: <<>> is None, <<v>> is the value v.       *)
(***************************************************************************)
EXTENDS Integers, Sequences, FiniteSets, TLC

\* ------------------------------------------------------------------------
\* Bounds of the model
\* ------------------------------------------------------------------------
MaxRendered == 2    \* listing anchors rendered after scrolling: 0..MaxRendered
MaxTotal == 2       \* requested target count `total`: 0..MaxTotal
MaxFeed == 11       \* listings the feed can render when the loader runs alone
MaxRequired == 12   \* required_items when the loader runs alone: 0..MaxRequired
MaxSuburbs == 3     \* lines of suburbs.txt in a batch: 0..MaxSuburbs

\* ------------------------------------------------------------------------
\* Values
\* ------------------------------------------------------------------------
None == <<>>
Some(v) == <<v>>

Min(a, b) == IF a <= b THEN a ELSE b

\* Python truthiness of a string (a token sequence): non-empty.
Truthy(s) == Len(s) > 0

\* s.startswith(p) for one prefix token p
StartsWithTok(s, p) == Len(s) >= 1 /\ s[1] = p

\* s.rstrip(c): drop every trailing occurrence of token c
RECURSIVE RStrip(_, _)
RStrip(s, c) ==
    IF Len(s) > 0 /\ s[Len(s)] = c THEN RStrip(SubSeq(s, 1, Len(s) - 1), c) ELSE s

\* index of the first / last occurrence of token c in s, 0 when absent
FirstIndex(s, c) ==
    IF \E k \in 1..Len(s) : s[k] = c
    THEN CHOOSE k \in 1..Len(s) : s[k] = c /\ \A j \in 1..(k - 1) : s[j] # c
    ELSE 0
LastIndex(s, c) ==
    IF \E k \in 1..Len(s) : s[k] = c
    THEN CHOOSE k \in 1..Len(s) : s[k] = c /\ \A j \in (k + 1)..Len(s) : s[j] # c
    ELSE 0

\* s.split(c)[-1] and s.split(c)[0]
SplitLast(s, c) == SubSeq(s, LastIndex(s, c) + 1, Len(s))
SplitFirst(s, c) ==
    IF FirstIndex(s, c) = 0 THEN s ELSE SubSeq(s, 1, FirstIndex(s, c) - 1)

\* s.split(c): the list of parts
RECURSIVE Split(_, _)
Split(s, c) ==
    IF FirstIndex(s, c) = 0 THEN <<s>>
    ELSE <<SubSeq(s, 1, FirstIndex(s, c) - 1)>>
         \o Split(SubSeq(s, FirstIndex(s, c) + 1, Len(s)), c)

\* ------------------------------------------------------------------------
\* extract_coordinates_from_url  (escrape.py 46-48)
\* ------------------------------------------------------------------------
\* numeric literals that float() accepts, with their value in hundredths
NumTokens == {"-37.81", "144.96", "17"}
FloatOf(t) == CASE t = "-37.81" -> -3781 [] t = "144.96" -> 14496 [] t = "17" -> 1700

\* float(part) succeeds iff the part is exactly one numeric literal
IsFloat(part) == Len(part) = 1 /\ part[1] \in NumTokens

CoordinateParts(url) == Split(SplitFirst(SplitLast(url, "/@"), "/"), ",")

\* TRUE iff extract_coordinates_from_url raises (ValueError or IndexError)
CoordinatesRaise(url) ==
    LET parts == CoordinateParts(url)
    IN  ~ (IsFloat(parts[1]) /\ Len(parts) >= 2 /\ IsFloat(parts[2]))

extract_coordinates_from_url(url) ==
    LET parts == CoordinateParts(url)
    IN  <<FloatOf(parts[1][1]), FloatOf(parts[2][1])>>

\* panel URLs the map UI can show after a click
PlaceUrl ==
    <<"https:", "/", "/", "www.google.com", "/", "maps", "/", "place", "/", "Shop",
      "/@", "-37.81", ",", "144.96", ",", "17z", "/", "data=x">>
SearchUrl ==
    <<"https:", "/", "/", "www.google.com", "/", "maps", "/", "search", "/", "boutiques">>
HalfUrl ==
    <<"https:", "/", "/", "www.google.com", "/", "maps", "/", "place", "/", "Shop",
      "/@", "-37.81", "/", "data=x">>
PanelUrls == {PlaceUrl, SearchUrl, HalfUrl}

\* ------------------------------------------------------------------------
\* extract_email_from_rendered_text  (escrape.py 50-55)
\* ------------------------------------------------------------------------
Emails == {"info@a.cc", "sales@a.cc"}
IsEmail(tok) == tok \in Emails

\* rendered body texts: sequences of words, some of which match the pattern
PageTexts ==
    { <<>>, <<"welcome">>, <<"contact", "info@a.cc">>,
      <<"sales@a.cc", "or", "info@a.cc">> }

\* emails[0] if emails else None
extract_email_from_rendered_text(text) ==
    LET emails == SelectSeq(text, IsEmail)
    IN  IF Len(emails) > 0 THEN Some(emails[1]) ELSE None

\* ------------------------------------------------------------------------
\* is_valid_url  (escrape.py 137-140)
\* ------------------------------------------------------------------------
Letters == {"a", "c", "w", "N", "A"}
LabelChars == Letters \cup {"1", "-"}

\* [a-zA-Z0-9-]+\.[a-zA-Z]{2,} matched at the start of s
DomainPrefix(s) ==
    \E k \in 1..Len(s) :
        /\ \A j \in 1..k : s[j] \in LabelChars
        /\ Len(s) >= k + 3
        /\ s[k + 1] = "."
        /\ s[k + 2] \in Letters
        /\ s[k + 3] \in Letters

IsWww(s) == Len(s) >= 4 /\ s[1] = "w" /\ s[2] = "w" /\ s[3] = "w" /\ s[4] = "."

\* the optional group is one of http://www. https://www. http:// https:// or empty
is_valid_url(url) ==
    LET rest == IF StartsWithTok(url, "http://") \/ StartsWithTok(url, "https://")
                THEN Tail(url) ELSE url
    IN  \/ (rest # url /\ IsWww(rest) /\ DomainPrefix(SubSeq(rest, 5, Len(rest))))
        \/ (rest # url /\ DomainPrefix(rest))
        \/ DomainPrefix(url)

\* texts the website-authority control can show
Websites ==
    { <<>>,
      <<"a", ".", "c", "c">>,
      <<"https://", "w", "w", "w", ".", "a", ".", "c", "c", "/">>,
      <<"N", "/", "A">> }

\* ------------------------------------------------------------------------
\* perform_site_specific_google_search  (escrape.py 57-90)
\* ------------------------------------------------------------------------
HasScheme(url) == StartsWithTok(url, "http://") \/ StartsWithTok(url, "https://")

\* what the search page can do: goto times out / errors, the results
\* container never appears, or the results page renders with some text
SearchOutcomes ==
    { [kind |-> k, text |-> <<>>] : k \in {"goto_timeout", "goto_error", "selector_timeout"} }
    \cup { [kind |-> "loaded", text |-> t] : t \in PageTexts }

SearchQueryUrl(website_url) ==
    <<"https://", "www.google.com/search?q=", "site:">> \o website_url \o <<" ", "email">>

\* TRUE iff search_page.goto is executed (line 70)
SearchNavigates(website_url) == HasScheme(website_url)

\* variant: the exception handlers hand back a placeholder address
perform_search_placeholder_on_error(website_url, o) ==
    IF ~ HasScheme(website_url) THEN None
    ELSE IF o.kind # "loaded" THEN Some("info@a.cc")
    ELSE extract_email_from_rendered_text(o.text)

\* variant: the search result is extracted but not returned
perform_search_drops_result(website_url, o) == None

\* the returned value; every exception is caught at lines 84-90
perform_site_specific_google_search(website_url, o) ==
    IF ~ HasScheme(website_url) THEN None
    ELSE IF o.kind # "loaded" THEN None
    ELSE extract_email_from_rendered_text(o.text)

\* ------------------------------------------------------------------------
\* search_email_on_website: constants  (escrape.py 97, 116)
\* ------------------------------------------------------------------------
common_contact_paths ==
    << <<"/", "about">>, <<"/", "contact">>, <<"/", "about-us">>, <<"/", "contact-us">>,
       <<"/", "support">>, <<"/", "help">>, <<"/", "get-in-touch">> >>

full_url(website_url, path) == RStrip(website_url, "/") \o path

\* what one navigation of the site page can do: raise (timeout or
\* navigation error, or the body text cannot be read) or render a text
NavOutcomes ==
    { [ok |-> FALSE, text |-> <<>>] } \cup { [ok |-> TRUE, text |-> t] : t \in PageTexts }

\* ------------------------------------------------------------------------
\* scrape_google_maps: the listing loop  (escrape.py 319-376)
\* ------------------------------------------------------------------------
\* variant: the slice [:total] is missing
ListingsNoSlice(rendered_count, target) == rendered_count

\* listings = page.locator(...).all()[:total]   (line 320)
Listings(rendered_count, target) == Min(rendered_count, target)

\* variant: the files are written as soon as one listing is done
LoopIsOverAfterFirst(idx, n) == idx > 1

\* line 327: the for loop has no listing left
LoopIsOver(idx, n) == idx > n

\* business = Business()   (lines 15-23, 332); `listing` records the listing
\* the object was created for
Business(k) ==
    [ listing |-> k, name |-> None, address |-> None, website |-> None,
      phone_number |-> None, email |-> None, latitude |-> None, longitude |-> None ]

\* inner_text() or ""
OrEmpty(text) == IF Truthy(text) THEN text ELSE <<>>

NameTexts == { <<"Shop">> }
AddressTexts == { <<"1 Main St">> }
PhoneTexts == { <<"0390000000">> }

\* variant: the website text is kept as shown
NormalizeWebsiteKeep(w) == w

\* lines 344-345: add the protocol if missing
NormalizeWebsite(w) == IF HasScheme(w) THEN w ELSE <<"https://">> \o w

NoReturn == [kind |-> "none", value |-> None]

\* the pages search_email_on_website works with: search_page (site) and
\* proxy_page (search); per page kind the number opened so far, the number
\* open now and the navigations made on it
PagesIdle ==
    [ site_opened |-> 0, site_open |-> 0, site_navs |-> 0,
      search_opened |-> 0, search_open |-> 0, search_navs |-> 0 ]

\* line 96: search_page = local_context.new_page()
OpenSitePage(pg) == [pg EXCEPT !.site_opened = @ + 1, !.site_open = @ + 1]

\* lines 105, 118: search_page.goto(...)
SitePageGoto(pg) == [pg EXCEPT !.site_navs = @ + 1]

\* variant: the site page is closed only when the function returns a value
CloseSitePageOnReturn(pg, kind) ==
    IF kind = "return" THEN [pg EXCEPT !.site_open = @ - 1] ELSE pg

\* lines 134-135: the finally closes search_page however the body ended
CloseSitePage(pg, kind) == [pg EXCEPT !.site_open = @ - 1]

\* lines 129-131: a new page of the proxy context, the search on it (one
\* goto when the URL has a scheme), then proxy_page.close()
FallbackPages(pg, navigates) ==
    [pg EXCEPT !.search_opened = @ + 1,
               !.search_navs = IF navigates THEN @ + 1 ELSE @]

VARIABLES
    pc,             \* position in scrape_google_maps / search_email_on_website
    rendered,       \* number of listing anchors rendered after scrolling
    total,          \* requested target count
    listings,       \* number of listing handles kept at line 320
    i,              \* index of the listing the for loop is at
    business,       \* the local `business`: None while unbound, else Some(record)
    business_list,  \* business_list.business_list
    website_url,    \* argument of search_email_on_website
    pathIdx,        \* index into common_contact_paths
    ret,            \* how search_email_on_website leaves: return value or raise
    navs,           \* history: navigations of the current discovery, in order
    yielded,        \* history: Some([stage, email]) once an extraction found an email
    failures,       \* history: contact paths whose navigation raised
    serp,           \* history: Some(text) of the search results page once it rendered
    performed,      \* history: steps executed for the current listing
    proxy_server,   \* argument of scrape_google_maps
    user_agent,     \* argument of scrape_google_maps
    proxy_browser,  \* the proxied session: "none", "open" or "closed"
    local_browser,  \* the unproxied session: "none", "open" or "closed"
    local_contexts, \* number of open contexts of the unproxied session
    raising,        \* TRUE while an exception unwinds through the outer finally
    saved,          \* number of output files written
    sink,           \* history: the records each output file was written from
    listingNavs,    \* history: navigations made since the current listing began
    feed_max,       \* number of listings the map feed can render at most
    loader,         \* locals of scroll_to_load_more and the history of its run
    batch,          \* the suburb loop of main_uat1.py
    pages,          \* pages of the current discovery: opened, open, navigations
    viewport        \* the random source and the viewport of each context

inputVars == << proxy_server, user_agent, feed_max, loader, batch, viewport >>
sessionVars == << proxy_browser, local_browser, local_contexts, raising, saved, sink, listingNavs >>

vars == << pc, rendered, total, listings, i, business, business_list,
           website_url, pathIdx, ret, navs, yielded, failures, serp, performed,
           proxy_server, user_agent, proxy_browser, local_browser, local_contexts,
           raising, saved, sink, listingNavs, feed_max, loader, batch, pages, viewport >>

engineVars == << website_url, pathIdx, ret, navs, yielded, failures, serp, pages >>
loopVars == << rendered, total, listings, i, business_list, inputVars >>

\* ------------------------------------------------------------------------
\* scroll_to_load_more  (escrape.py 142-229)
\* ------------------------------------------------------------------------
max_scrolls == 10

\* the locals of the function before it runs; the other fields are history:
\*   stop_reason    why the function left the loop or returned
\*   last_op        the last of "count", "grace", "scroll" it performed
\*   graces         grace waits that began and ended at the present count
\*   grew_every_scroll  every scroll so far was followed by new listings
\*   enough_at      the kind of the first count >= required_items it took
\*   scrolls_after, graces_after   scrolls / grace waits after that count
\*   iterations     entries into the body of the while loop
\*   grace_waits    grace waits performed in the whole run
LoaderIdle ==
    [ previous_count |-> 0, current_count |-> 0, scroll_count |-> 0,
      stop_reason |-> "none", last_op |-> "none", graces |-> 0, grew_every_scroll |-> TRUE,
      enough_at |-> "none", scrolls_after |-> 0, graces_after |-> 0,
      iterations |-> 0, grace_waits |-> 0 ]

\* variant: the loop has no bound on the scrolls
LoopContinuesAlways(scroll_count) == TRUE

\* line 172: the loop test
LoopContinues(scroll_count) == scroll_count < max_scrolls

\* variant: the target test is > instead of >=
AfterCountStrict(current_count, previous_count, required_items) ==
    IF current_count > required_items THEN "reached"
    ELSE IF current_count = previous_count THEN "grace"
    ELSE "scroll"

\* lines 177-183: what follows the count at the top of an iteration
AfterCount(current_count, previous_count, required_items) ==
    IF current_count >= required_items THEN "reached"
    ELSE IF current_count = previous_count THEN "grace"
    ELSE "scroll"

\* variant: the recheck after the grace wait never stops the loop
AfterGraceNoStop(current_count, previous_count) == "scroll"

\* lines 186-189: what follows the recount after the grace wait
AfterGrace(current_count, previous_count) ==
    IF current_count = previous_count THEN "stalled" ELSE "scroll"

\* the first count >= required_items is remembered with its kind
NoteCount(ld, count, required_items, kind) ==
    IF ld.enough_at = "none" /\ count >= required_items
    THEN [ld EXCEPT !.enough_at = kind] ELSE ld

\* argument values of scrape_google_maps
ProxyServers ==
    { <<"http://", "proxy:8080">>, <<"https://", "proxy:8080">>, <<"proxy:8080">> }
UserAgents == { <<>>, <<"Mozilla/5.0">> }

\* variant: the user agent is not checked
ValidInputsProxyOnly(server, agent) == StartsWithTok(server, "http://")

\* lines 247-250: the two checks that raise ValueError
ValidInputs(server, agent) ==
    /\ StartsWithTok(server, "http://") /\ ~ StartsWithTok(server, "https://")
    /\ Truthy(agent)

\* ------------------------------------------------------------------------
\* main_uat1.py: the loop over suburbs  (lines 55-105)
\* ------------------------------------------------------------------------
\* lines of suburbs.txt: well formed, two parts only, no comma
SuburbLines ==
    { <<"Fitzroy", ",", "VIC", ",", "3065">>,
      <<"Fitzroy", ",", "VIC">>,
      <<"Fitzroy VIC">> }

RECURSIVE SeqsUpTo(_, _)
SeqsUpTo(S, n) ==
    IF n = 0 THEN { <<>> }
    ELSE SeqsUpTo(S, n - 1) \cup { Append(q, x) : q \in SeqsUpTo(S, n - 1), x \in S }

\* `suburbs` is the list read at lines 56-57; `idx` is the loop position;
\* `state` is "looping", "finished" or "crashed"; `called` is the history of
\* the positions for which scrape_google_maps was called, `visited` of the
\* positions the loop body ran for
BatchIdle == [suburbs |-> <<>>, idx |-> 1, state |-> "idle", called |-> {}, visited |-> {}]

\* lines 77-79: a line is processed iff it has a comma and splits in three
IsWellFormed(suburb) ==
    FirstIndex(suburb, ",") # 0 /\ Len(Split(suburb, ",")) = 3

\* line 86: the proxy argument is always "http://" + proxy
BatchProxyServer == <<"http://", "proxy:8080">>

\* lines 52-53, 72: a random non-blank line of user_agents_desktop.txt
BatchUserAgents == { agent \in UserAgents : Truthy(agent) }

\* how a call of scrape_google_maps with these arguments can end, named by
\* the position at which scrape_google_maps stops
ScrapeEnds(server, agent) ==
    IF ValidInputs(server, agent) THEN {"done", "propagated"} ELSE {"value_error"}

\* the ends that leave scrape_google_maps with an exception
ScrapeRaises(end) == end # "done"

\* ------------------------------------------------------------------------
\* viewports of the two contexts  (escrape.py 289-295, 352-355)
\* ------------------------------------------------------------------------
MinViewportWidth == 1024
MaxViewportWidth == 1920
MinViewportHeight == 768
MaxViewportHeight == 1080

\* sizes random.randint(1024, 1920) x random.randint(768, 1080) can give
\* (the corners of the range)
RandomSizes ==
    { [width |-> w, height |-> h] :
        w \in {MinViewportWidth, MaxViewportWidth}, h \in {MinViewportHeight, MaxViewportHeight} }

\* the random source of a run: the sizes its successive draws give
RandomSources == { <<a, b>> : a \in RandomSizes, b \in RandomSizes }

DefaultRandomSource ==
    << [width |-> MinViewportWidth, height |-> MinViewportHeight],
       [width |-> MaxViewportWidth, height |-> MaxViewportHeight] >>

\* `source` is the random source, `draws` the number of sizes drawn so far
\* (the locals viewport_width, viewport_height hold the last one), `search`
\* and `site` are None or Some([size, draw]): the viewport the context was
\* created with and the draw it came from
ViewportIdle(source) == [source |-> source, draws |-> 0, search |-> None, site |-> None]

\* lines 289-290: draw a width and a height
DrawViewport(vp) == [vp EXCEPT !.draws = @ + 1]

\* the locals viewport_width, viewport_height
CurrentViewport(vp) == [size |-> vp.source[vp.draws], draw |-> vp.draws]

\* lines 292-295: the proxied context takes the locals
SearchContextViewport(vp) == [vp EXCEPT !.search = Some(CurrentViewport(vp))]

\* lines 352-355: the unproxied context takes the same locals, no new draw
SiteContextViewport(vp) == [vp EXCEPT !.site = Some(CurrentViewport(vp))]

IpCheckUrl == <<"https://", "api64.ipify.org?format=json">>
MapsUrl == <<"https://", "www.google.com/maps">>

Nav(ctx, url) == [ctx |-> ctx, url |-> url]

\* variant: the two contexts are passed in the wrong order
EngineContextsSwapped == [local_context |-> "proxy", proxy_context |-> "local"]

\* line 362: the session each context argument of search_email_on_website
\* belongs to (local_context from local_browser, proxy_context from proxy_browser)
EngineContexts == [local_context |-> "local", proxy_context |-> "proxy"]

\* line 96: the site page is a page of the local_context argument
SitePageContext == EngineContexts.local_context

\* variant: the fallback search reuses the site page
FallbackReusesSitePage == EngineContexts.local_context

\* line 129: the fallback page is a page of the proxy_context argument
FallbackPageContext == EngineContexts.proxy_context

Init ==
    /\ viewport = ViewportIdle(DefaultRandomSource)
    /\ pc = "validate"
    /\ proxy_server \in ProxyServers
    /\ user_agent \in UserAgents
    /\ proxy_browser = "none"
    /\ local_browser = "none"
    /\ local_contexts = 0
    /\ raising = FALSE
    /\ saved = 0
    /\ sink = <<>>
    /\ listingNavs = <<>>
    /\ feed_max = MaxRendered
    /\ loader = LoaderIdle
    /\ batch = BatchIdle
    /\ rendered \in 0..MaxRendered
    /\ total \in 0..MaxTotal
    /\ listings = 0
    /\ i = 1
    /\ business = None
    /\ business_list = <<>>
    /\ website_url = <<>>
    /\ pathIdx = 1
    /\ ret = NoReturn
    /\ navs = <<>>
    /\ yielded = None
    /\ failures = 0
    /\ serp = None
    /\ performed = {}
    /\ pages = PagesIdle

\* lines 147-170: find the results panel, initialise the counters
LoaderFindPanel ==
    /\ pc = "loader"
    /\ \E r \in {"found", "absent", "error"} :
         IF r = "found"
         THEN /\ loader' = LoaderIdle
              /\ pc' = "loop_top"
         ELSE /\ loader' = [LoaderIdle EXCEPT
                     !.stop_reason = IF r = "absent" THEN "no_panel" ELSE "error"]
              /\ pc' = "loader_done"
    /\ UNCHANGED << rendered, total, listings, i, business_list, proxy_server, user_agent, feed_max, batch, viewport >>
    /\ UNCHANGED << business, performed >>
    /\ UNCHANGED sessionVars
    /\ UNCHANGED engineVars

\* lines 172-183: loop test, count the anchors, compare with the target
\* and with the previous count
LoaderCount ==
    /\ pc = "loop_top"
    /\ IF ~ LoopContinues(loader.scroll_count)
       THEN /\ loader' = [loader EXCEPT !.stop_reason = "exhausted"]
            /\ pc' = "final"
       ELSE \/ LET next == AfterCount(rendered, loader.previous_count, total)
                   seen == NoteCount(loader, rendered, total, "top")
               IN  /\ loader' = [seen EXCEPT
                          !.current_count = rendered,
                          !.last_op = "count",
                          !.iterations = @ + 1,
                          !.stop_reason = IF next = "reached" THEN "reached" ELSE @]
                   /\ pc' = IF next = "reached" THEN "final" ELSE next
            \* the count raises: caught at line 228
            \/ /\ loader' = [loader EXCEPT !.iterations = @ + 1, !.stop_reason = "error"]
               /\ pc' = "loader_done"
    /\ UNCHANGED << rendered, total, listings, i, business_list, proxy_server, user_agent, feed_max, batch, viewport >>
    /\ UNCHANGED << business, performed >>
    /\ UNCHANGED sessionVars
    /\ UNCHANGED engineVars

\* lines 184-189: the grace wait (the feed may render more meanwhile) and
\* the recount
LoaderGrace ==
    /\ pc = "grace"
    /\ \/ \E c \in rendered..feed_max :
            LET next == AfterGrace(c, loader.previous_count)
                seen == NoteCount(loader, c, total, "recount")
            IN  /\ rendered' = c
                /\ loader' = [seen EXCEPT
                       !.current_count = c,
                       !.last_op = "grace",
                       !.graces = IF c > rendered THEN 0 ELSE @ + 1,
                       !.grace_waits = @ + 1,
                       !.graces_after = IF loader.enough_at # "none" THEN @ + 1 ELSE @,
                       !.stop_reason = IF next = "stalled" THEN "stalled" ELSE @]
                /\ pc' = IF next = "stalled" THEN "final" ELSE next
       \* the wait or the recount raises: caught at line 228
       \/ /\ loader' = [loader EXCEPT !.grace_waits = @ + 1, !.stop_reason = "error"]
          /\ pc' = "loader_done"
          /\ UNCHANGED rendered
    /\ UNCHANGED << total, listings, i, business_list, proxy_server, user_agent, feed_max, batch, viewport >>
    /\ UNCHANGED << business, performed >>
    /\ UNCHANGED sessionVars
    /\ UNCHANGED engineVars

\* lines 191-219: remember the count, scroll the panel, settle (the feed
\* may render more), count the scroll
LoaderScroll ==
    /\ pc = "scroll"
    /\ \E r \in {"scrolled", "panel_gone", "error"} :
         IF r = "scrolled"
         THEN \E c \in rendered..feed_max :
                /\ rendered' = c
                /\ loader' = [loader EXCEPT
                       !.previous_count = loader.current_count,
                       !.scroll_count = @ + 1,
                       !.last_op = "scroll",
                       !.graces = IF c > rendered THEN 0 ELSE @,
                       !.grew_every_scroll = @ /\ c > rendered,
                       !.scrolls_after = IF loader.enough_at # "none" THEN @ + 1 ELSE @]
                /\ pc' = "loop_top"
         ELSE /\ loader' = [loader EXCEPT
                     !.previous_count = loader.current_count,
                     !.stop_reason = r]
              /\ pc' = IF r = "panel_gone" THEN "final" ELSE "loader_done"
              /\ UNCHANGED rendered
    /\ UNCHANGED << total, listings, i, business_list, proxy_server, user_agent, feed_max, batch, viewport >>
    /\ UNCHANGED << business, performed >>
    /\ UNCHANGED sessionVars
    /\ UNCHANGED engineVars

\* lines 221-229: the final count is only logged; when it raises, the
\* handler at line 228 logs instead
LoaderFinal ==
    /\ pc = "final"
    /\ pc' = "loader_done"
    /\ UNCHANGED << business, performed >>
    /\ UNCHANGED loopVars
    /\ UNCHANGED sessionVars
    /\ UNCHANGED engineVars

\* line 318: scroll_to_load_more returns nothing; its locals are gone
LoaderReturn ==
    /\ pc = "loader_done"
    /\ loader' = LoaderIdle
    /\ pc' = "hover"
    /\ UNCHANGED << rendered, total, listings, i, business_list, proxy_server, user_agent, feed_max, batch, viewport >>
    /\ UNCHANGED << business, performed >>
    /\ UNCHANGED sessionVars
    /\ UNCHANGED engineVars

\* lines 319-322: hover the first anchor (raises when none is rendered),
\* take the first `total` anchors, create the empty collection
Hover ==
    /\ pc = "hover"
    /\ IF rendered = 0
       THEN pc' = "finally_outer" /\ raising' = TRUE /\ UNCHANGED listings
       ELSE pc' = "for" /\ listings' = Listings(rendered, total) /\ UNCHANGED raising
    /\ UNCHANGED << rendered, total, i, business, business_list, performed >>
    /\ UNCHANGED << proxy_browser, local_browser, local_contexts, saved, sink, listingNavs >>
    /\ UNCHANGED inputVars
    /\ UNCHANGED engineVars

\* lines 327-332: next listing; click, settle, then create the record
ListingClick ==
    /\ pc = "for"
    /\ ~ LoopIsOver(i, listings)
    /\ \E ok \in BOOLEAN :
         IF ok
         THEN pc' = "name" /\ business' = Some(Business(i))
         ELSE pc' = "except" /\ UNCHANGED business
    /\ performed' = {"click"}
    /\ website_url' = <<>> /\ pathIdx' = 1 /\ ret' = NoReturn
    /\ navs' = <<>> /\ yielded' = None /\ failures' = 0 /\ serp' = None
    /\ pages' = PagesIdle
    /\ listingNavs' = <<>>
    /\ UNCHANGED loopVars
    /\ UNCHANGED << proxy_browser, local_browser, local_contexts, raising, saved, sink >>

\* one guarded-by-nothing field lookup: locator(...).inner_text() or ""
FieldLookup(at, field, texts, next) ==
    /\ pc = at
    /\ performed' = performed \cup {field}
    /\ \/ \E t \in texts :
            /\ business' = [business EXCEPT ![1][field] = Some(OrEmpty(t))]
            /\ pc' = next
       \/ pc' = "except" /\ UNCHANGED business
    /\ UNCHANGED loopVars
    /\ UNCHANGED sessionVars
    /\ UNCHANGED engineVars

ExtractName == FieldLookup("name", "name", NameTexts, "address")            \* line 333
ExtractAddress == FieldLookup("address", "address", AddressTexts, "website_text") \* line 334
ExtractWebsite == FieldLookup("website_text", "website", Websites, "phone")  \* line 335
ExtractPhone == FieldLookup("phone", "phone_number", PhoneTexts, "coordinates") \* line 336

\* line 337
ExtractCoordinates ==
    /\ pc = "coordinates"
    /\ performed' = performed \cup {"coordinates"}
    /\ \E url \in PanelUrls :
         IF CoordinatesRaise(url)
         THEN pc' = "except" /\ UNCHANGED business
         ELSE /\ business' = [business EXCEPT
                     ![1].latitude = Some(extract_coordinates_from_url(url)[1]),
                     ![1].longitude = Some(extract_coordinates_from_url(url)[2])]
              /\ pc' = "website"
    /\ UNCHANGED loopVars
    /\ UNCHANGED sessionVars
    /\ UNCHANGED engineVars

\* lines 342-350 and 364-365: normalize, validate, decide on discovery
CheckWebsite ==
    /\ pc = "website"
    /\ LET w == business[1].website[1]
           n == NormalizeWebsite(w)
       IN  IF ~ Truthy(w)
           THEN /\ pc' = "finally"
                /\ UNCHANGED << business, performed >>
           ELSE /\ business' = [business EXCEPT ![1].website = Some(n)]
                /\ performed' = performed \cup {"normalize", "validate"}
                /\ pc' = IF is_valid_url(n) THEN "local_context" ELSE "finally"
    /\ UNCHANGED loopVars
    /\ UNCHANGED sessionVars
    /\ UNCHANGED engineVars

\* lines 352-360: new unproxied context, page, IP check navigation
OpenLocalContext ==
    /\ pc = "local_context"
    /\ local_contexts' = local_contexts + 1
    /\ listingNavs' = Append(listingNavs, Nav("local", IpCheckUrl))
    /\ viewport' = SiteContextViewport(viewport)
    /\ \E ok \in BOOLEAN : pc' = IF ok THEN "engine_open" ELSE "except"
    /\ UNCHANGED << business, performed >>
    /\ UNCHANGED << rendered, total, listings, i, business_list >>
    /\ UNCHANGED << proxy_server, user_agent, feed_max, loader, batch >>
    /\ UNCHANGED << proxy_browser, local_browser, raising, saved, sink >>
    /\ UNCHANGED engineVars

\* ------------------------------------------------------------------------
\* search_email_on_website  (escrape.py 94-135)
\* ------------------------------------------------------------------------
\* lines 96-97: open the site page (argument: the record's website)
EngineOpenPage ==
    /\ pc = "engine_open"
    /\ website_url' = business[1].website[1]
    /\ pathIdx' = 1
    /\ ret' = NoReturn
    /\ navs' = <<>> /\ yielded' = None /\ failures' = 0 /\ serp' = None
    /\ pages' = OpenSitePage(PagesIdle)
    /\ performed' = performed \cup {"discovery"}
    /\ pc' = "home"
    /\ UNCHANGED business
    /\ UNCHANGED loopVars
    /\ UNCHANGED sessionVars

\* variant: the home-page stage forgets to return on a match
AfterHomeNoReturn(email_found) == "contact"

\* where the home-page stage goes after an extraction result (lines 108-113)
AfterHome(email_found) == IF email_found # None THEN "engine_finally" ELSE "contact"

\* lines 99-110: the home page; an exception here is not caught in the function
VisitHome ==
    /\ pc = "home"
    /\ navs' = Append(navs, Nav(SitePageContext, website_url))
    /\ listingNavs' = Append(listingNavs, Nav(SitePageContext, website_url))
    /\ pages' = SitePageGoto(pages)
    /\ \E o \in NavOutcomes :
         IF ~ o.ok
         THEN /\ ret' = [kind |-> "raise", value |-> None]
              /\ pc' = "engine_finally"
              /\ UNCHANGED yielded
         ELSE LET email_found == extract_email_from_rendered_text(o.text)
              IN  /\ yielded' = IF email_found # None
                                THEN Some([stage |-> Len(navs'), email |-> email_found[1]])
                                ELSE yielded
                  /\ pc' = AfterHome(email_found)
                  /\ ret' = IF pc' = "engine_finally"
                            THEN [kind |-> "return", value |-> email_found]
                            ELSE ret
    /\ UNCHANGED << website_url, pathIdx, failures, serp, business, performed >>
    /\ UNCHANGED loopVars
    /\ UNCHANGED << proxy_browser, local_browser, local_contexts, raising, saved, sink >>

\* variant: a miss on one path ends the sweep
AfterPathMissBreak(k) == "fallback"

\* where the sweep goes after path k raised (lines 124-125) or had no email
AfterPathMiss(k) == IF k < Len(common_contact_paths) THEN "contact" ELSE "fallback"

\* lines 113-125: one iteration of the contact-path sweep
VisitContactPath ==
    /\ pc = "contact"
    /\ navs' = Append(navs, Nav(SitePageContext, full_url(website_url, common_contact_paths[pathIdx])))
    /\ listingNavs' = Append(listingNavs,
                             Nav(SitePageContext, full_url(website_url, common_contact_paths[pathIdx])))
    /\ pages' = SitePageGoto(pages)
    /\ \E o \in NavOutcomes :
         LET email_found == IF o.ok THEN extract_email_from_rendered_text(o.text) ELSE None
         IN  IF email_found # None
             THEN /\ yielded' = IF yielded = None
                                THEN Some([stage |-> Len(navs'), email |-> email_found[1]])
                                ELSE yielded
                  /\ ret' = [kind |-> "return", value |-> email_found]
                  /\ pc' = "engine_finally"
                  /\ UNCHANGED << pathIdx, failures >>
             ELSE /\ failures' = IF o.ok THEN failures ELSE failures + 1
                  /\ pc' = AfterPathMiss(pathIdx)
                  /\ pathIdx' = IF pc' = "contact" THEN pathIdx + 1 ELSE pathIdx
                  /\ UNCHANGED << yielded, ret >>
    /\ UNCHANGED << website_url, serp, business, performed >>
    /\ UNCHANGED loopVars
    /\ UNCHANGED << proxy_browser, local_browser, local_contexts, raising, saved, sink >>

\* lines 127-132: search-engine fallback on a fresh page of the proxy context
GoogleFallback ==
    /\ pc = "fallback"
    /\ navs' = IF SearchNavigates(website_url)
               THEN Append(navs, Nav(FallbackPageContext, SearchQueryUrl(website_url)))
               ELSE navs
    /\ listingNavs' = IF SearchNavigates(website_url)
                      THEN Append(listingNavs, Nav(FallbackPageContext, SearchQueryUrl(website_url)))
                      ELSE listingNavs
    /\ pages' = FallbackPages(pages, SearchNavigates(website_url))
    /\ \E o \in SearchOutcomes :
         LET email_found == perform_site_specific_google_search(website_url, o)
         IN  /\ yielded' = IF email_found # None /\ yielded = None
                           THEN Some([stage |-> Len(navs'), email |-> email_found[1]])
                           ELSE yielded
             /\ ret' = [kind |-> "return", value |-> email_found]
             /\ serp' = IF SearchNavigates(website_url) /\ o.kind = "loaded"
                        THEN Some(o.text) ELSE serp
    /\ pc' = "engine_finally"
    /\ UNCHANGED << website_url, pathIdx, failures, business, performed >>
    /\ UNCHANGED loopVars
    /\ UNCHANGED << proxy_browser, local_browser, local_contexts, raising, saved, sink >>

\* lines 134-135: close the site page, then return or propagate
EngineFinally ==
    /\ pc = "engine_finally"
    /\ pc' = IF ret.kind = "return" THEN "assign_email" ELSE "except"
    /\ pages' = CloseSitePage(pages, ret.kind)
    /\ UNCHANGED << website_url, pathIdx, ret, navs, yielded, failures, serp >>
    /\ UNCHANGED << business, performed >>
    /\ UNCHANGED loopVars
    /\ UNCHANGED sessionVars

\* lines 362-363: store the result, close the local context
AssignEmail ==
    /\ pc = "assign_email"
    /\ business' = [business EXCEPT ![1].email = ret.value]
    /\ local_contexts' = local_contexts - 1
    /\ pc' = "finally"
    /\ UNCHANGED performed
    /\ UNCHANGED loopVars
    /\ UNCHANGED << proxy_browser, local_browser, raising, saved, sink, listingNavs >>
    /\ UNCHANGED engineVars

\* lines 367-368: the per-listing handler only logs
Except ==
    /\ pc = "except"
    /\ pc' = "finally"
    /\ UNCHANGED << business, performed >>
    /\ UNCHANGED loopVars
    /\ UNCHANGED sessionVars
    /\ UNCHANGED engineVars

\* lines 369-370: append whatever `business` is bound to; an unbound name
\* raises out of the loop.  The listing is over: its history is dropped.
AppendBusiness ==
    /\ pc = "finally"
    /\ IF business = None
       THEN /\ pc' = "finally_outer" /\ raising' = TRUE
            /\ UNCHANGED << business_list, i, performed, listingNavs >>
            /\ UNCHANGED engineVars
       ELSE /\ business_list' = Append(business_list, business[1])
            /\ i' = i + 1
            /\ pc' = "for"
            /\ performed' = {}
            /\ website_url' = <<>> /\ pathIdx' = 1 /\ ret' = NoReturn
            /\ navs' = <<>> /\ yielded' = None /\ failures' = 0 /\ serp' = None
            /\ pages' = PagesIdle
            /\ listingNavs' = <<>>
            /\ UNCHANGED raising
    /\ UNCHANGED << rendered, total, listings, business >>
    /\ UNCHANGED << proxy_browser, local_browser, local_contexts, saved, sink >>
    /\ UNCHANGED inputVars

\* lines 30-36, 375: the loop is over; the collection is written to the
\* spreadsheet file, or the write raises
save_to_excel ==
    /\ pc = "for"
    /\ LoopIsOver(i, listings)
    /\ \/ /\ saved' = saved + 1
          /\ sink' = Append(sink, business_list)
          /\ pc' = "save_csv"
          /\ UNCHANGED raising
       \/ /\ pc' = "finally_outer"
          /\ raising' = TRUE
          /\ UNCHANGED << saved, sink >>
    /\ UNCHANGED << business, performed >>
    /\ UNCHANGED loopVars
    /\ UNCHANGED << proxy_browser, local_browser, local_contexts, listingNavs >>
    /\ UNCHANGED engineVars

\* lines 38-41, 376: the collection is written to the CSV file, or the
\* write raises
save_to_csv ==
    /\ pc = "save_csv"
    /\ \/ /\ saved' = saved + 1
          /\ sink' = Append(sink, business_list)
          /\ UNCHANGED raising
       \/ /\ raising' = TRUE
          /\ UNCHANGED << saved, sink >>
    /\ pc' = "finally_outer"
    /\ UNCHANGED << business, performed >>
    /\ UNCHANGED loopVars
    /\ UNCHANGED << proxy_browser, local_browser, local_contexts, listingNavs >>
    /\ UNCHANGED engineVars

\* line 378 (outer finally): close the proxied session
CloseProxyBrowser ==
    /\ pc = "finally_outer"
    /\ \E ok \in BOOLEAN :
         IF ok
         THEN proxy_browser' = "closed" /\ pc' = "close_local"
         ELSE pc' = "propagated" /\ UNCHANGED proxy_browser
    /\ UNCHANGED << local_browser, local_contexts, raising, saved, sink, listingNavs >>
    /\ UNCHANGED << business, performed >>
    /\ UNCHANGED loopVars
    /\ UNCHANGED engineVars

\* line 379 (outer finally): close the unproxied session and its contexts,
\* then return, or go on propagating the pending exception
CloseLocalBrowser ==
    /\ pc = "close_local"
    /\ \E ok \in BOOLEAN :
         IF ok
         THEN /\ local_browser' = "closed"
              /\ local_contexts' = 0
              /\ pc' = IF raising THEN "propagated" ELSE "done"
         ELSE pc' = "propagated" /\ UNCHANGED << local_browser, local_contexts >>
    /\ UNCHANGED << proxy_browser, raising, saved, sink, listingNavs >>
    /\ UNCHANGED << business, performed >>
    /\ UNCHANGED loopVars
    /\ UNCHANGED engineVars

\* lines 247-250: input validation, before anything is launched
Validate ==
    /\ pc = "validate"
    /\ pc' = IF ValidInputs(proxy_server, user_agent) THEN "launch_proxy" ELSE "value_error"
    /\ UNCHANGED << business, performed >>
    /\ UNCHANGED loopVars
    /\ UNCHANGED sessionVars
    /\ UNCHANGED engineVars

\* lines 268-279: launch the proxied session (outside the try)
LaunchProxyBrowser ==
    /\ pc = "launch_proxy"
    /\ \E ok \in BOOLEAN :
         IF ok
         THEN proxy_browser' = "open" /\ pc' = "launch_local"
         ELSE pc' = "propagated" /\ UNCHANGED proxy_browser
    /\ UNCHANGED << local_browser, local_contexts, raising, saved, sink, listingNavs >>
    /\ UNCHANGED << business, performed >>
    /\ UNCHANGED loopVars
    /\ UNCHANGED engineVars

\* lines 282-285: launch the unproxied session (outside the try)
LaunchLocalBrowser ==
    /\ pc = "launch_local"
    /\ \E ok \in BOOLEAN :
         IF ok
         THEN local_browser' = "open" /\ pc' = "search_context"
         ELSE pc' = "propagated" /\ UNCHANGED local_browser
    /\ UNCHANGED << proxy_browser, local_contexts, raising, saved, sink, listingNavs >>
    /\ UNCHANGED << business, performed >>
    /\ UNCHANGED loopVars
    /\ UNCHANGED engineVars

\* lines 288-296: viewport, proxied context and the map page
CreateSearchContext ==
    /\ pc = "search_context"
    /\ \E ok \in BOOLEAN :
         IF ok
         THEN /\ pc' = "search_surface"
              /\ viewport' = SearchContextViewport(DrawViewport(viewport))
              /\ UNCHANGED raising
         ELSE /\ pc' = "finally_outer"
              /\ viewport' = DrawViewport(viewport)
              /\ raising' = TRUE
    /\ UNCHANGED << proxy_browser, local_browser, local_contexts, saved, sink, listingNavs >>
    /\ UNCHANGED << business, performed >>
    /\ UNCHANGED << rendered, total, listings, i, business_list >>
    /\ UNCHANGED << proxy_server, user_agent, feed_max, loader, batch >>
    /\ UNCHANGED engineVars

\* lines 299-314: IP check, map page, query, wait for the results panel
LoadSearchSurface ==
    /\ pc = "search_surface"
    /\ \/ /\ listingNavs' = <<Nav("proxy", IpCheckUrl)>>
          /\ pc' = "finally_outer" /\ raising' = TRUE
       \/ /\ listingNavs' = <<Nav("proxy", IpCheckUrl), Nav("proxy", MapsUrl)>>
          /\ \E ok \in BOOLEAN :
               IF ok
               THEN pc' = "loader" /\ UNCHANGED raising
               ELSE pc' = "finally_outer" /\ raising' = TRUE
    /\ UNCHANGED << proxy_browser, local_browser, local_contexts, saved, sink >>
    /\ UNCHANGED << business, performed >>
    /\ UNCHANGED loopVars
    /\ UNCHANGED engineVars

Next ==
    \/ Validate
    \/ LaunchProxyBrowser
    \/ LaunchLocalBrowser
    \/ CreateSearchContext
    \/ LoadSearchSurface
    \/ LoaderFindPanel
    \/ LoaderCount
    \/ LoaderGrace
    \/ LoaderScroll
    \/ LoaderFinal
    \/ LoaderReturn
    \/ Hover
    \/ ListingClick
    \/ ExtractName
    \/ ExtractAddress
    \/ ExtractWebsite
    \/ ExtractPhone
    \/ ExtractCoordinates
    \/ CheckWebsite
    \/ OpenLocalContext
    \/ EngineOpenPage
    \/ VisitHome
    \/ VisitContactPath
    \/ GoogleFallback
    \/ EngineFinally
    \/ AssignEmail
    \/ Except
    \/ AppendBusiness
    \/ save_to_excel
    \/ save_to_csv
    \/ CloseProxyBrowser
    \/ CloseLocalBrowser

Spec == Init /\ [][Next]_vars

\* scroll_to_load_more called on an open map page, with any target and a
\* feed of up to MaxFeed listings
InitLoader ==
    /\ viewport = SearchContextViewport(DrawViewport(ViewportIdle(DefaultRandomSource)))
    /\ pc = "loader"
    /\ proxy_server = <<"http://", "proxy:8080">>
    /\ user_agent = <<"Mozilla/5.0">>
    /\ proxy_browser = "open"
    /\ local_browser = "open"
    /\ local_contexts = 0
    /\ raising = FALSE
    /\ saved = 0
    /\ sink = <<>>
    /\ listingNavs = <<Nav("proxy", IpCheckUrl), Nav("proxy", MapsUrl)>>
    /\ feed_max = MaxFeed
    /\ loader = LoaderIdle
    /\ batch = BatchIdle
    /\ rendered \in 0..MaxFeed
    /\ total \in 0..MaxRequired
    /\ listings = 0
    /\ i = 1
    /\ business = None
    /\ business_list = <<>>
    /\ website_url = <<>>
    /\ pathIdx = 1
    /\ ret = NoReturn
    /\ navs = <<>>
    /\ yielded = None
    /\ failures = 0
    /\ serp = None
    /\ performed = {}
    /\ pages = PagesIdle

\* lines 69-105: one iteration of the suburb loop; the call at line 85 is
\* not guarded, so an exception of scrape_google_maps ends the script
BatchIteration ==
    /\ batch.state = "looping"
    /\ batch.idx <= Len(batch.suburbs)
    /\ LET suburb == batch.suburbs[batch.idx]
           seen == [batch EXCEPT !.visited = @ \cup {batch.idx}]
       IN  /\ user_agent' \in BatchUserAgents
           /\ IF IsWellFormed(suburb)
              THEN /\ proxy_server' = BatchProxyServer
                   /\ \E end \in ScrapeEnds(proxy_server', user_agent') :
                        batch' = [seen EXCEPT
                            !.called = @ \cup {batch.idx},
                            !.state = IF ScrapeRaises(end) THEN "crashed" ELSE @,
                            !.idx = IF ScrapeRaises(end) THEN @ ELSE @ + 1]
              ELSE /\ batch' = [seen EXCEPT !.idx = @ + 1]
                   /\ UNCHANGED proxy_server
    /\ UNCHANGED << pc, rendered, total, listings, i, business, business_list, performed >>
    /\ UNCHANGED << feed_max, loader, viewport >>
    /\ UNCHANGED sessionVars
    /\ UNCHANGED engineVars

\* the list is exhausted: the script ends
BatchEnd ==
    /\ batch.state = "looping"
    /\ batch.idx > Len(batch.suburbs)
    /\ batch' = [batch EXCEPT !.state = "finished"]
    /\ UNCHANGED << pc, rendered, total, listings, i, business, business_list, performed >>
    /\ UNCHANGED << proxy_server, user_agent, feed_max, loader, viewport >>
    /\ UNCHANGED sessionVars
    /\ UNCHANGED engineVars

\* the script after suburbs.txt was read (non-empty, line 64)
InitBatch ==
    /\ viewport = ViewportIdle(DefaultRandomSource)
    /\ batch \in { [suburbs |-> ss, idx |-> 1, state |-> "looping", called |-> {}, visited |-> {}] :
                     ss \in SeqsUpTo(SuburbLines, MaxSuburbs) \ { <<>> } }
    /\ pc = "validate"
    /\ proxy_server = BatchProxyServer
    /\ user_agent \in BatchUserAgents
    /\ proxy_browser = "none"
    /\ local_browser = "none"
    /\ local_contexts = 0
    /\ raising = FALSE
    /\ saved = 0
    /\ sink = <<>>
    /\ listingNavs = <<>>
    /\ feed_max = MaxRendered
    /\ loader = LoaderIdle
    /\ rendered = 0
    /\ total = 0
    /\ listings = 0
    /\ i = 1
    /\ business = None
    /\ business_list = <<>>
    /\ website_url = <<>>
    /\ pathIdx = 1
    /\ ret = NoReturn
    /\ navs = <<>>
    /\ yielded = None
    /\ failures = 0
    /\ serp = None
    /\ performed = {}
    /\ pages = PagesIdle

\* one query with one rendered listing, for every random source
InitViewport ==
    /\ viewport \in { ViewportIdle(source) : source \in RandomSources }
    /\ pc = "validate"
    /\ proxy_server = <<"http://", "proxy:8080">>
    /\ user_agent = <<"Mozilla/5.0">>
    /\ proxy_browser = "none"
    /\ local_browser = "none"
    /\ local_contexts = 0
    /\ raising = FALSE
    /\ saved = 0
    /\ sink = <<>>
    /\ listingNavs = <<>>
    /\ feed_max = 1
    /\ loader = LoaderIdle
    /\ batch = BatchIdle
    /\ rendered = 1
    /\ total = MaxTotal
    /\ listings = 0
    /\ i = 1
    /\ business = None
    /\ business_list = <<>>
    /\ website_url = <<>>
    /\ pathIdx = 1
    /\ ret = NoReturn
    /\ navs = <<>>
    /\ yielded = None
    /\ failures = 0
    /\ serp = None
    /\ performed = {}
    /\ pages = PagesIdle

SpecViewport == InitViewport /\ [][Next]_vars

NextBatch == BatchIteration \/ BatchEnd

SpecBatch == InitBatch /\ [][NextBatch]_vars

NextLoader ==
    \/ LoaderFindPanel
    \/ LoaderCount
    \/ LoaderGrace
    \/ LoaderScroll
    \/ LoaderFinal

SpecLoader == InitLoader /\ [][NextLoader]_vars

\* the function is sequential code whose waits all have timeouts: a step
\* that can be taken is taken
SpecLoaderFair == SpecLoader /\ WF_vars(NextLoader)

TypeOK ==
    /\ pc \in {"validate", "value_error", "launch_proxy", "launch_local", "search_context",
               "search_surface", "save_csv", "finally_outer", "close_local", "loader", "loop_top",
               "grace", "scroll", "final", "loader_done", "hover", "for", "name", "address", "website_text", "phone", "coordinates",
               "website", "local_context", "engine_open", "home", "contact", "fallback",
               "engine_finally", "assign_email", "except", "finally", "done", "propagated"}
    /\ rendered \in 0..feed_max
    /\ total \in 0..MaxTotal
    /\ listings \in 0..MaxRendered
    /\ loader.scroll_count \in 0..max_scrolls
    /\ loader.iterations \in 0..max_scrolls
    /\ loader.grace_waits \in 0..max_scrolls
    /\ i \in 1..(MaxRendered + 1)
    /\ pathIdx \in 1..Len(common_contact_paths)
    /\ failures \in 0..Len(common_contact_paths)
    /\ proxy_browser \in {"none", "open", "closed"}
    /\ local_browser \in {"none", "open", "closed"}
    /\ local_contexts \in 0..MaxRendered
    /\ raising \in BOOLEAN
    /\ saved \in 0..2

\* ------------------------------------------------------------------------
\* Properties
\* ------------------------------------------------------------------------
IsPrefix(s, t) == Len(s) <= Len(t) /\ \A k \in 1..Len(s) : s[k] = t[k]

\* the fixed order of navigations of one discovery on `url`
StageOrder(url) ==
    <<Nav("local", url)>>
    \o [k \in 1..Len(common_contact_paths) |-> Nav("local", full_url(url, common_contact_paths[k]))]
    \o <<Nav("proxy", SearchQueryUrl(url))>>

SiteStages == 1 + Len(common_contact_paths)

ContainsEmail(text) == \E k \in 1..Len(text) : IsEmail(text[k])
FirstEmail(text) ==
    text[CHOOSE k \in 1..Len(text) : IsEmail(text[k]) /\ \A j \in 1..(k - 1) : ~ IsEmail(text[j])]

DetailSteps == {"name", "address", "website", "phone_number", "coordinates"}

\* C1: the navigations of a discovery follow the fixed order home, /about,
\* /contact, /about-us, /contact-us, /support, /help, /get-in-touch, search;
\* once a stage has yielded an email no later navigation is made and the
\* function returns exactly that email; a returned email is always one a
\* stage yielded.
C1_FirstFoundWins ==
    /\ IsPrefix(navs, StageOrder(website_url))
    /\ yielded # None =>
          /\ Len(navs) = yielded[1].stage
          /\ ret = [kind |-> "return", value |-> Some(yielded[1].email)]
    /\ (ret.kind = "return" /\ ret.value # None) => yielded # None

\* the home page yielded an email and the function returned after one navigation
C1_Witness ==
    /\ pc = "assign_email"
    /\ yielded # None /\ yielded[1].stage = 1
    /\ navs = <<Nav("local", website_url)>>
    /\ ret.value = Some(yielded[1].email)

\* C2: whenever no stage found an email, search_email_on_website returns
\* None and raises nothing.
C2_NoneWithoutRaising ==
    (ret.kind # "none" /\ yielded = None) => ret = [kind |-> "return", value |-> None]

\* C3: when the home page did not produce an email (navigation failure
\* included), the first contact path is visited.
C3_HomeMissAdvances ==
    (ret.kind # "none" /\ (yielded = None \/ yielded[1].stage > 1)) =>
        /\ Len(navs) >= 2
        /\ navs[2] = Nav("local", full_url(website_url, common_contact_paths[1]))

\* C4: a navigation failure on a contact path is a miss for that path only:
\* the sweep is at path k exactly when home and the k-1 earlier paths were
\* visited in order, failures never make the function raise, and when no
\* path yielded an email the fallback is entered after all seven paths.
C4_SweepContinues ==
    /\ IsPrefix(navs, StageOrder(website_url))
    /\ pc = "contact" => (Len(navs) = pathIdx /\ yielded = None /\ ret.kind = "none")
    /\ pc = "fallback" => (Len(navs) = SiteStages /\ yielded = None /\ ret.kind = "none")
    /\ failures > 0 => ret.kind # "raise"
    /\ (failures > 0 /\ ret.kind = "return" /\ (yielded = None \/ yielded[1].stage > SiteStages))
          => (Len(navs) >= SiteStages /\ failures <= Len(common_contact_paths))

\* every contact path raised and the fallback is entered
C4_Witness ==
    /\ pc = "fallback"
    /\ failures = Len(common_contact_paths)
    /\ Len(navs) = SiteStages

\* C5: when the search results page rendered (so neither the home page nor
\* a contact path yielded an email) and its text contains an email, the
\* function returns the first email of that text, and the caller stores it.
C5_FallbackResultReturned ==
    (serp # None /\ ContainsEmail(serp[1])) =>
        /\ ret = [kind |-> "return", value |-> Some(FirstEmail(serp[1]))]
        /\ Len(navs) = SiteStages + 1
        /\ navs[Len(navs)] = Nav("proxy", SearchQueryUrl(website_url))
        /\ pc = "finally" => business[1].email = Some(FirstEmail(serp[1]))

\* the fallback found an email after eight misses and it was stored
C5_Witness ==
    /\ pc = "finally"
    /\ serp = Some(<<"sales@a.cc", "or", "info@a.cc">>)
    /\ business[1].email = Some("sales@a.cc")
    /\ failures > 0

\* C6: no exception escapes the per-listing boundary, whatever step of a
\* listing fails (the click included, the first listing included).
C6_NoEscapeFromListing ==
    ~ (raising /\ i <= listings)

\* C7: the collection holds one record per processed listing, in order,
\* the k-th record being the one created for the k-th listing.
C7_OneRecordPerListing ==
    /\ Len(business_list) = i - 1
    /\ \A k \in 1..Len(business_list) : business_list[k].listing = k

\* C8: the collection never holds more than `total` records.
C8_SizeAtMostTotal == Len(business_list) <= total

\* more anchors were rendered than requested and exactly `total` were saved
C8_Witness ==
    /\ pc = "done"
    /\ rendered > total
    /\ total > 0
    /\ Len(business_list) = total

\* C9: when the panel opened, every field lookup and the coordinate
\* derivation has been performed by the time the record is appended.
C9_LookupsIndependent ==
    (pc = "finally" /\ "name" \in performed) => DetailSteps \subseteq performed

\* C10: when the coordinate derivation raised, the website found for the
\* listing is still normalized and validated before the record is appended.
C10_CoordinateFailureIsLocal ==
    (pc = "finally" /\ "coordinates" \in performed /\ business[1].latitude = None) =>
        /\ business[1].longitude = None
        /\ business[1].phone_number # None
        /\ Truthy(business[1].website[1]) => {"normalize", "validate"} \subseteq performed

\* the URLs of the business website `w`: its root and root + contact path
SiteUrls(w) ==
    {w} \cup { RStrip(w, "/") \o common_contact_paths[k] : k \in 1..Len(common_contact_paths) }

IsSearchEngineUrl(u) ==
    Len(u) >= 2 /\ u[1] = "https://" /\ u[2] = "www.google.com/search?q="

\* the website of the listing being processed
CurrentWebsite == IF business # None /\ business[1].website # None
                  THEN business[1].website[1] ELSE <<>>

\* C11: a record that reaches the collection with a non-empty website that
\* passes is_valid_url had search_email_on_website invoked for its listing.
C11_ValidWebsiteTriedDiscovery ==
    (pc = "finally" /\ business # None /\ Truthy(CurrentWebsite) /\ is_valid_url(CurrentWebsite))
        => "discovery" \in performed

\* C12: when scrape_google_maps returns or propagates an exception, no
\* session it launched is still open.
C12_SessionsClosed ==
    pc \in {"done", "propagated", "value_error"} =>
        (proxy_browser # "open" /\ local_browser # "open")

\* C13: when the processing of a listing has ended, the site-identity
\* context created for it is closed; at most one is ever open.
C13_SiteContextClosed ==
    /\ local_contexts <= 1
    /\ pc = "for" => local_contexts = 0

\* C14: every navigation to the business website (root or root + contact
\* path) is made on the unproxied context, every search-engine navigation on
\* the proxied context, and a discovery makes no other navigation.
C14_RoutingByIdentity ==
    LET site == SiteUrls(CurrentWebsite)
    IN  /\ \A k \in 1..Len(listingNavs) :
              /\ listingNavs[k].url \in site => listingNavs[k].ctx = "local"
              /\ IsSearchEngineUrl(listingNavs[k].url) => listingNavs[k].ctx = "proxy"
        /\ \A k \in 1..Len(navs) :
              navs[k].url \in site \/ IsSearchEngineUrl(navs[k].url)

\* a discovery that visited the home page, the seven paths and the search engine
C14_Witness ==
    /\ pc = "engine_finally"
    /\ Len(navs) = SiteStages + 1
    /\ navs[1] = Nav("local", CurrentWebsite)
    /\ navs[Len(navs)].ctx = "proxy" /\ IsSearchEngineUrl(navs[Len(navs)].url)

\* C15 (as claimed): every navigation on the unproxied context targets the
\* website of the listing being processed and no other URL.
C15_SiteContextOnlyWebsite ==
    \A k \in 1..Len(listingNavs) :
        listingNavs[k].ctx = "local" => listingNavs[k].url \in SiteUrls(CurrentWebsite)

\* C15 (amended): every navigation on the unproxied context targets the
\* website of the listing being processed, except the first one of each
\* listing, which is the IP check https://api64.ipify.org?format=json.
C15_SiteContextWebsiteOrIpCheck ==
    LET site == SiteUrls(CurrentWebsite)
    IN  \A k \in 1..Len(listingNavs) :
            listingNavs[k].ctx = "local" =>
                IF \A j \in 1..(k - 1) : listingNavs[j].ctx # "local"
                THEN listingNavs[k].url = IpCheckUrl
                ELSE listingNavs[k].url \in site

\* the IP check, the home page and a contact path were loaded on the unproxied context
C15_Witness ==
    /\ Len(listingNavs) >= 3
    /\ listingNavs[1] = Nav("local", IpCheckUrl)
    /\ listingNavs[2] = Nav("local", CurrentWebsite)
    /\ listingNavs[3].ctx = "local"
    /\ Truthy(CurrentWebsite)

\* C18: with a proxy_server that does not start with http:// or an empty
\* user_agent, the function raises ValueError: no session is launched, no
\* navigation is made and no output file is written.
C18_ValidationFirst ==
    ~ (Len(proxy_server) >= 1 /\ proxy_server[1] = "http://" /\ user_agent # <<>>) =>
        /\ pc \in {"validate", "value_error"}
        /\ proxy_browser = "none" /\ local_browser = "none" /\ local_contexts = 0
        /\ listingNavs = <<>>
        /\ saved = 0

\* the ValueError for an empty user agent behind a well-formed proxy URL
C18_Witness ==
    /\ pc = "value_error"
    /\ proxy_server = <<"http://", "proxy:8080">>
    /\ user_agent = <<>>

\* the loop ended for a reason that lies in the page, not in the feed
PanelFailed == loader.stop_reason \in {"no_panel", "panel_gone", "error"}

\* C16 (as claimed): a run that ends with the feed stalled at K < N made
\* exactly one grace-wait recheck at K and stopped on the stall check,
\* without scrolling after it.
C16_StallStopsAfterOneGrace ==
    (pc = "loader_done" /\ rendered < total /\ ~ PanelFailed) =>
        /\ loader.stop_reason = "stalled"
        /\ loader.graces = 1
        /\ loader.last_op = "grace"

\* C16 (amended): a run that ends with the feed stalled at K < N either
\* made exactly one grace-wait recheck at K and stopped on the stall check
\* without scrolling after it, having made fewer than max_scrolls scrolls,
\* or it stopped on the scroll bound right after its max_scrolls-th scroll,
\* without any grace wait at K.
C16_StallOrScrollBound ==
    (pc = "loader_done" /\ rendered < total /\ ~ PanelFailed) =>
        \/ /\ loader.stop_reason = "stalled"
           /\ loader.graces = 1
           /\ loader.last_op = "grace"
           /\ loader.scroll_count < max_scrolls
        \/ /\ loader.stop_reason = "exhausted"
           /\ loader.graces = 0
           /\ loader.last_op = "scroll"
           /\ loader.scroll_count = max_scrolls

\* the feed grew for some scrolls, stalled below the target and the stall
\* check stopped the loader
C16_Witness ==
    /\ pc = "loader_done"
    /\ loader.stop_reason = "stalled"
    /\ loader.scroll_count >= 3
    /\ 0 < rendered /\ rendered < total
    /\ loader.graces = 1

\* C17: with a feed that yields new listings after every scroll and still
\* has listings to yield, the loader leaves the loop only on a count >= N
\* (or on the scroll bound), and does nothing after that count.
C17_GrowingFeedStopsAtTarget ==
    (pc = "loader_done" /\ loader.grew_every_scroll /\ rendered < feed_max
        /\ ~ PanelFailed /\ loader.stop_reason # "exhausted") =>
        /\ loader.stop_reason = "reached"
        /\ loader.current_count >= total
        /\ loader.scrolls_after = 0 /\ loader.graces_after = 0

\* C20 (as claimed): after a count >= N, taken at the top of an iteration
\* or after a grace wait, no scroll is performed.
C20_NoScrollAfterEnough == loader.scrolls_after = 0

\* C20 (amended): after a count >= N taken at the top of an iteration the
\* loader performs no scroll and no grace wait; a recount >= N after a
\* grace wait is not compared with N and is followed by at most one scroll,
\* after which the loop ends.
C20_NoScrollAfterTopCount ==
    /\ loader.graces_after = 0
    /\ loader.enough_at = "top" =>
          (loader.scrolls_after = 0 /\ loader.stop_reason = "reached" /\ pc \in {"final", "loader_done"})
    /\ loader.enough_at = "recount" => loader.scrolls_after <= 1
    /\ (loader.enough_at = "recount" /\ loader.scrolls_after = 1) => pc \in {"loop_top", "final", "loader_done"}
    /\ (pc = "loader_done" /\ loader.stop_reason = "reached") => loader.current_count >= total

\* the target was first met by a recount after a grace wait, one more scroll
\* followed, and the next count ended the loop
C20_Witness ==
    /\ pc = "loader_done"
    /\ loader.enough_at = "recount"
    /\ loader.scrolls_after = 1
    /\ loader.stop_reason = "reached"

\* C19: in the suburb loop a failing query target (malformed line, or an
\* exception of scrape_google_maps) is confined to that target: when the
\* script ends, the loop body has run for every line of the list.
C19_BatchContinues ==
    batch.state \in {"finished", "crashed"} =>
        batch.visited = 1..Len(batch.suburbs)

\* C21: scroll_to_load_more always terminates, whatever the feed does: it
\* makes at most max_scrolls scrolls and at most one grace wait per loop
\* iteration, and it always ends by returning (every exception is caught
\* inside it).
C21_LoaderTerminates ==
    /\ [](/\ loader.scroll_count <= max_scrolls
          /\ loader.iterations <= max_scrolls
          /\ loader.scroll_count <= loader.iterations
          /\ loader.grace_waits <= loader.iterations)
    /\ <>(pc = "loader_done")

\* a run in which the feed grew only during grace waits, ended by the
\* scroll bound
C21_Witness ==
    /\ pc = "loader_done"
    /\ loader.stop_reason = "exhausted"
    /\ loader.scroll_count = max_scrolls
    /\ loader.grace_waits = max_scrolls
    /\ ~ loader.grew_every_scroll

\* positions inside the try block of search_email_on_website
EngineInside == {"home", "contact", "fallback", "engine_finally"}

\* C22: one invocation of search_email_on_website opens exactly one site
\* page, which carries every home-page and contact-path navigation and is
\* closed however the invocation ends; a search page is opened at most
\* once, only when the fallback is reached (after the whole sweep), and is
\* closed again before the invocation returns.
C22_OneSitePageOneSearchPage ==
    /\ pages.site_opened <= 1 /\ pages.search_opened <= 1
    /\ pc \in EngineInside => (pages.site_opened = 1 /\ pages.site_open = 1)
    /\ pc \notin EngineInside => pages.site_open = 0
    /\ ("discovery" \in performed /\ pc \notin EngineInside) => pages.site_opened = 1
    /\ pages.search_open = 0
    /\ pages.site_navs + pages.search_navs = Len(navs)
    /\ pages.site_navs = Cardinality({ k \in 1..Len(navs) : navs[k].ctx = SitePageContext })
    /\ pages.search_opened = 1 =>
          /\ pages.site_navs = SiteStages
          /\ pc \notin {"home", "contact", "fallback"}
    /\ pages.search_navs <= pages.search_opened

\* the invocation returned an email found by the fallback: both pages were
\* opened once and are closed
C22_Witness ==
    /\ pc = "assign_email"
    /\ ret.value # None
    /\ pages.site_opened = 1 /\ pages.search_opened = 1
    /\ pages.site_open = 0 /\ pages.search_open = 0
    /\ pages.site_navs = SiteStages /\ pages.search_navs = 1

\* C23: when the fallback search fails (the navigation times out or
\* errors, or the results container never appears), the engine returns None:
\* the search page was navigated once, no stage was repeated, and the
\* invocation ends by returning, not by raising.
C23_FailedSearchReturnsNone ==
    (pages.search_opened = 1 /\ serp = None) =>
        /\ ret = [kind |-> "return", value |-> None]
        /\ pages.search_navs <= 1
        /\ Len(navs) = SiteStages + pages.search_navs
        /\ IsPrefix(navs, StageOrder(website_url))
        /\ pc # "except"

\* a discovery whose fallback search failed and that returned None
C23_Witness ==
    /\ pc = "assign_email"
    /\ pages.search_navs = 1
    /\ serp = None
    /\ ret = [kind |-> "return", value |-> None]

\* C24: the collection is handed to the output sink only after every
\* listing has been processed, and is not changed from the first save on:
\* each output file was written from the collection as it is now, which
\* holds one record per listing handle.
C24_SavedAfterLoopAndFrozen ==
    Len(sink) >= 1 =>
        /\ i > listings
        /\ Len(business_list) = listings
        /\ \A k \in 1..Len(sink) : sink[k] = business_list
        /\ Len(sink) = saved

\* both files were written, from the same two records
C24_Witness ==
    /\ saved = 2
    /\ Len(sink) = 2
    /\ Len(sink[1]) = 2
    /\ sink[1] = sink[2]
    /\ pc = "done"

InViewportRange(size) ==
    /\ size.width \in MinViewportWidth..MaxViewportWidth
    /\ size.height \in MinViewportHeight..MaxViewportHeight

\* C25: the viewport of the site context comes from a draw of its own, not
\* from the draw the search context's viewport came from, and both sizes
\* are within 1024..1920 by 768..1080.
C25_ViewportsDrawnSeparately ==
    (viewport.search # None /\ viewport.site # None) =>
        /\ viewport.site[1].draw # viewport.search[1].draw
        /\ InViewportRange(viewport.search[1].size)
        /\ InViewportRange(viewport.site[1].size)

\* a record whose website is non-empty, has a scheme and passes is_valid_url
HasCheckedWebsite(r) ==
    /\ r.website # None
    /\ Truthy(r.website[1])
    /\ HasScheme(r.website[1])
    /\ is_valid_url(r.website[1])

\* C26: every record of the collection, and the record being filled, that
\* has an email has a non-empty website with a scheme that passes
\* is_valid_url; and while email discovery runs or has run for the current
\* listing, that listing's website is such a website and is the URL the
\* discovery works on.
C26_EmailImpliesValidWebsite ==
    /\ \A k \in 1..Len(business_list) :
          business_list[k].email # None => HasCheckedWebsite(business_list[k])
    /\ (business # None /\ business[1].email # None) => HasCheckedWebsite(business[1])
    /\ ("discovery" \in performed \/ pc \in {"local_context", "engine_open"}) =>
          /\ business # None
          /\ HasCheckedWebsite(business[1])
          /\ {"normalize", "validate"} \subseteq performed
    /\ "discovery" \in performed => website_url = business[1].website[1]

\* a record with an email in the collection whose website got its scheme
\* from the normalization
C26_Witness ==
    \E k \in 1..Len(business_list) :
        /\ business_list[k].email # None
        /\ business_list[k].website = Some(<<"https://", "a", ".", "c", "c">>)

====
